---------------------------- MODULE Spec2Model ----------------------------
(***************************************************************************)
(* The portfolio flip-book viewer (React component App).  The repository   *)
(* holds three versions of the component:                                  *)
(*                                                                         *)
(*   "static"  src/unnamed/part_000 lines 1-265: 24 pre-rendered images,   *)
(*             aspect ratio 5500/3300;                                     *)
(*   "lazy"    src/unnamed/part_000 lines 267-616: the PDF is loaded once  *)
(*             and the pages near the current one are rendered on demand   *)
(*             (renderPage / renderSequential), aspect ratio 17/11;        *)
(*   "eager"   src/src/App.tsx: every change of the page size reloads the  *)
(*             PDF and renders all its pages in order (loadPdf), 17/11.    *)
(*                                                                         *)
(* The state is the component's useState/useRef cells, the window's size,  *)
(* and the async functions that are suspended at an await.  An action is   *)
(* one task of the event loop: an event handler or the continuation of an  *)
(* await, together with the re-render and the effects it triggers (state   *)
(* updates made in one task are batched into one render).                  *)
(*                                                                         *)
(* Arithmetic.  The code computes the layout in IEEE-754 doubles with      *)
(* aspectRatio = 17/11 (or 5500/3300) and floors the result.  The model    *)
(* computes the same quantities over the integers: x / aspectRatio is      *)
(* x*den/num and a comparison of two quotients is cross-multiplied.  For   *)
(* every integer viewport 0..2999 by 0..1999 the two evaluations give the  *)
(* same branch and the same floored values (compared exhaustively).        *)
(***************************************************************************)
EXTENDS Integers, Sequences, FiniteSets, TLC

(***************************************************************************)
(* Bounds of the model.                                                    *)
(***************************************************************************)
\* Spec: how many entries of ViewportList the window can take.
NumViewports == 2
\* Spec: the PDF has 1..MaxPages pages.
MaxPages == 3
\* Spec: at most this many async loops (renderSequential or loadPdf
\* invocations) are suspended at once; a handler that would start one more
\* is not taken.
MaxLoops == 2
\* LayoutSpec: the window sizes 0..SmallMax and WideLo..WideLo+WideSpan.
SmallMax == 260
WideLo == 760
WideSpan == 40
\* RenderSetSpec: the PDF has 1..MaxDocPages pages.
MaxDocPages == 25

\* How far outside the page indices the index carried by a flip event may be.
FlipSlack == 1

(***************************************************************************)
(* Program constants.                                                      *)
(***************************************************************************)
MOBILE_BREAKPOINT == 768
\* useState<number>(24) of the static version
StaticNumPages == 24

Variants == {"static", "lazy", "eager"}

\* const aspectRatio = 5500 / 3300 (static), 17 / 11 (lazy, eager)
AspectNum(v) == IF v = "static" THEN 5500 ELSE 17
AspectDen(v) == IF v = "static" THEN 3300 ELSE 11

Max(a, b) == IF a >= b THEN a ELSE b
Min(a, b) == IF a <= b THEN a ELSE b

(***************************************************************************)
(* calculateDimensions                                                     *)
(***************************************************************************)
\* A slip in the breakpoint test: <= for <.
MobileModeNarrowInclusive(viewportWidth, viewportHeight) ==
    viewportWidth <= MOBILE_BREAKPOINT \/ viewportHeight > viewportWidth

\* const mobileMode = isNarrowScreen || isPortrait
MobileMode(viewportWidth, viewportHeight) ==
    LET isPortrait == viewportHeight > viewportWidth
        isNarrowScreen == viewportWidth < MOBILE_BREAKPOINT
    IN  isNarrowScreen \/ isPortrait

VerticalPadding(mobileMode) == IF mobileMode THEN 80 ELSE 100

\* A slip in the padding: the mobile margin in both modes.
HorizontalPaddingMobileOnly(mobileMode) == 20

HorizontalPadding(mobileMode) == IF mobileMode THEN 20 ELSE 40

\* A slip in the spread branch: the whole available width for one page.
FitPageWholeWidth(num, den, mobileMode, availableWidth, availableHeight) ==
    IF mobileMode
    THEN IF availableWidth * den <= availableHeight * num
         THEN <<availableWidth, (availableWidth * den) \div num>>
         ELSE <<(availableHeight * num) \div den, availableHeight>>
    ELSE IF availableHeight * num <= availableWidth * den
         THEN <<(availableHeight * num) \div den, availableHeight>>
         ELSE <<availableWidth, (availableWidth * den) \div num>>

\* The page size before Math.floor and the minimum: <<pageWidth, pageHeight>>
\* floored (the floor of a quotient p/q, q > 0, is p \div q).
FitPage(num, den, mobileMode, availableWidth, availableHeight) ==
    IF mobileMode
    THEN \* widthBasedHeight <= availableHeight
         IF availableWidth * den <= availableHeight * num
         THEN <<availableWidth, (availableWidth * den) \div num>>
         ELSE <<(availableHeight * num) \div den, availableHeight>>
    ELSE \* heightBasedPageWidth <= singlePageWidth
         IF 2 * availableHeight * num <= availableWidth * den
         THEN <<(availableHeight * num) \div den, availableHeight>>
         ELSE <<availableWidth \div 2, (availableWidth * den) \div (2 * num)>>

\* A slip in the minimum: the height is not raised to 130.
EnsureMinimumWidthOnly(floored) ==
    [width |-> Max(floored[1], 200), height |-> floored[2]]

\* pageWidth = Math.max(Math.floor(pageWidth), 200), pageHeight likewise 130
EnsureMinimum(floored) ==
    [width |-> Max(floored[1], 200), height |-> Max(floored[2], 130)]

\* The value passed to setDimensions and to setIsMobile.
CalculateDimensions(v, viewportWidth, viewportHeight) ==
    LET mobileMode == MobileMode(viewportWidth, viewportHeight)
        availableHeight == viewportHeight - VerticalPadding(mobileMode)
        availableWidth == viewportWidth - HorizontalPadding(mobileMode)
        size == EnsureMinimum(FitPage(AspectNum(v), AspectDen(v), mobileMode,
                                      availableWidth, availableHeight))
    IN  [width |-> size.width, height |-> size.height, isMobile |-> mobileMode]

(***************************************************************************)
(* Page images.  A rendered image is the data URL of a canvas drawn for    *)
(* one page at one requested size; it is modelled by that page and size.   *)
(* A static image is a file path: it has no size.  null is the empty slot. *)
(***************************************************************************)
null == [page |-> -1, width |-> 0, height |-> 0]
Image(pageIndex, width, height) ==
    [page |-> pageIndex, width |-> width, height |-> height]
StaticPath(pageIndex) == [page |-> pageIndex, width |-> 0, height |-> 0]

\* new Array(n).fill(null)
Nulls(n) == [i \in 1..n |-> null]

\* images[idx] is truthy (idx counts from 0; out of range is undefined)
Truthy(images, idx) == (idx + 1) \in DOMAIN images /\ images[idx + 1] # null

Range(s) == {s[i] : i \in DOMAIN s}

(***************************************************************************)
(* The render set of the lazy version, in the insertion order of the Set.  *)
(***************************************************************************)
SetAdd(s, x) == IF x \in Range(s) THEN s ELSE Append(s, x)

RECURSIVE AddBuffer(_, _, _, _, _)
AddBuffer(s, i, buffer, current, n) ==
    IF i > buffer THEN s
    ELSE LET s1 == IF current + i < n THEN SetAdd(s, current + i) ELSE s
             s2 == IF current - i >= 0 THEN SetAdd(s1, current - i) ELSE s1
         IN  AddBuffer(s2, i + 1, buffer, current, n)

Buffer(mobile) == IF mobile THEN 2 ELSE 4

PagesToRender(current, mobile, n) ==
    LET view == IF mobile THEN <<current>> ELSE <<current, current + 1>>
    IN  AddBuffer(view, 1, Buffer(mobile), current, n)

\* The filter keeping only the first index that has no image.
RenderNeededFirstOnly(set, images) ==
    LET needed == SelectSeq(set, LAMBDA idx : ~Truthy(images, idx))
    IN  IF needed = <<>> THEN <<>> ELSE <<Head(needed)>>

\* Array.from(pagesToRender).filter(idx => !pageImages[idx])
RenderNeeded(set, images) ==
    SelectSeq(set, LAMBDA idx : ~Truthy(images, idx))

VARIABLES
    variant,        \* which version of App runs
    pdfNumPages,    \* pdf.numPages of /portfolio.pdf
    innerWidth,     \* window.innerWidth
    innerHeight,    \* window.innerHeight
    mounted,        \* the mount effects have run
    numPages,
    currentPage,
    pageImages,
    dimensions,
    isMobile,
    pdfDocRef,      \* pdfDocRef.current is set
    renderPage,     \* lazy: what the memoized renderPage callback closes over
    pagesToRender,  \* lazy: the Set built by the last run of the render effect
    loadPdfDoc,     \* lazy: "idle", "pending", "done", "failed"
    loops,          \* lazy: the suspended renderSequential invocations
    loads           \* eager: the suspended loadPdf invocations

vars == <<variant, pdfNumPages, innerWidth, innerHeight, mounted, numPages,
          currentPage, pageImages, dimensions, isMobile, pdfDocRef,
          renderPage, pagesToRender, loadPdfDoc, loops, loads>>

ViewportList == << <<1920, 1080>>, <<400, 800>>, <<1000, 700>>, <<100, 100>> >>
Viewports == {ViewportList[i] : i \in 1..Min(NumViewports, Len(ViewportList))}

Dense == (0..SmallMax) \cup (WideLo..(WideLo + WideSpan))
LayoutViewports == (Dense \X Dense) \cup {<<1920, 1080>>, <<400, 800>>}

\* The useState and useRef initial values, under a window of one of the
\* sizes vps, a PDF of one of the page counts, one of the versions.
InitOf(vs, vps, counts) ==
    /\ variant \in vs
    /\ pdfNumPages \in (IF variant = "static" THEN {0} ELSE counts)
    /\ \E vp \in vps : innerWidth = vp[1] /\ innerHeight = vp[2]
    /\ mounted = FALSE
    /\ numPages = IF variant = "static" THEN StaticNumPages ELSE 0
    /\ currentPage = 0
    /\ pageImages = <<>>
    /\ dimensions = [width |-> 0, height |-> 0]
    /\ isMobile = FALSE
    /\ pdfDocRef = FALSE
    /\ renderPage = [numPages |-> numPages, width |-> 0, pageImages |-> <<>>]
    /\ pagesToRender = <<>>
    /\ loadPdfDoc = "idle"
    /\ loops = <<>>
    /\ loads = <<>>


Init == InitOf(Variants, Viewports, 1..MaxPages)

(***************************************************************************)
(* Helpers of the actions.                                                 *)
(***************************************************************************)
Remove(s, k) == SubSeq(s, 1, k - 1) \o SubSeq(s, k + 1, Len(s))

\* useCallback(..., [numPages, dimensions.width]): the callback of this
\* render, which closes over this render's numPages, dimensions.width and
\* pageImages, replaces the memoized one when a dependency changed.
Memoized(rp, n, width, images) ==
    IF rp.numPages # n \/ rp.width # width
    THEN [numPages |-> n, width |-> width, pageImages |-> images]
    ELSE rp

\* renderPage without the upper bound on pageIndex.
ReturnsEarlyNoUpperBound(rp, docRef, pageIndex, width) ==
    \/ ~docRef \/ pageIndex < 0
    \/ Truthy(rp.pageImages, pageIndex) /\ rp.width = width

\* renderPage(pageIndex, width, height) returns before its first await.
\* (pdfDocRef.current is set whenever a loop exists or is created.)
ReturnsEarly(rp, docRef, pageIndex, width) ==
    \/ ~docRef \/ pageIndex < 0 \/ pageIndex >= rp.numPages
    \/ Truthy(rp.pageImages, pageIndex) /\ rp.width = width

\* renderSequential runs on through the calls of renderPage that return
\* early (an await of a settled promise resumes in the same task): what is
\* left of renderNeeded when it suspends, the head being the page whose
\* render is in flight.
RECURSIVE RunOn(_, _, _, _)
RunOn(needed, rp, docRef, width) ==
    IF needed = <<>> THEN <<>>
    ELSE IF ReturnsEarly(rp, docRef, Head(needed), width)
         THEN RunOn(Tail(needed), rp, docRef, width)
         ELSE needed

\* The renderSequential invocations (none or one) that a call with this
\* renderNeeded leaves suspended, at await pdfDocRef.current.getPage(...).
Suspended(needed, rp, docRef, dims) ==
    LET left == RunOn(needed, rp, docRef, dims.width)
    IN  IF left = <<>> THEN <<>>
        ELSE << [renderNeeded |-> left, renderPage |-> rp,
                 width |-> dims.width, height |-> dims.height,
                 pc |-> "getPage"] >>

\* The render effect of the lazy version, run in a render with these values:
\* the Set it builds (the old one if it returns at once) and the loops it
\* leaves suspended.
RenderEffect(docRef, current, n, dims, mobile, images, rp, oldSet) ==
    IF ~docRef \/ dims.width = 0 \/ n = 0
    THEN [set |-> oldSet, started |-> <<>>]
    ELSE LET set == PagesToRender(current, mobile, n)
         IN  [set |-> set,
              started |-> Suspended(RenderNeeded(set, images), rp, docRef, dims)]

\* loadPdf() of the eager version, suspended at await loadingTask.promise.
NewLoad(dims) ==
    [pc |-> "getDocument", width |-> dims.width, height |-> dims.height,
     i |-> 0, images |-> <<>>]

(***************************************************************************)
(* Mount: the effects of the first render.  calculateDimensions() runs,    *)
(* the listeners are registered, and the version's load starts.            *)
(***************************************************************************)
Mount ==
    /\ ~mounted
    /\ mounted' = TRUE
    /\ LET d == CalculateDimensions(variant, innerWidth, innerHeight)
           dims == [width |-> d.width, height |-> d.height]
       IN  /\ dimensions' = dims
           /\ isMobile' = d.isMobile
           /\ pageImages' = IF variant = "static"
                            THEN [i \in 1..numPages |-> StaticPath(i - 1)]
                            ELSE pageImages
           /\ loadPdfDoc' = IF variant = "lazy" THEN "pending" ELSE loadPdfDoc
           /\ renderPage' = IF variant = "lazy"
                            THEN Memoized(renderPage, numPages, dims.width, pageImages)
                            ELSE renderPage
           \* eager: the effect returns while dimensions.width === 0 and
           \* runs again in the render that setDimensions causes
           /\ loads' = IF variant = "eager" /\ dims.width # 0
                       THEN <<NewLoad(dims)>>
                       ELSE loads
    /\ UNCHANGED <<variant, pdfNumPages, innerWidth, innerHeight, numPages,
                   currentPage, pdfDocRef, pagesToRender, loops>>

\* A resize handler whose layout remembers the widest page so far.
ResizeKeepsWidest(vp) ==
    /\ mounted
    /\ innerWidth' = vp[1]
    /\ innerHeight' = vp[2]
    /\ LET d == CalculateDimensions(variant, vp[1], vp[2])
           dims == [width |-> Max(d.width, dimensions.width),
                    height |-> d.height]
           rp == Memoized(renderPage, numPages, dims.width, pageImages)
           deps == dims # dimensions \/ d.isMobile # isMobile
           eff == IF variant = "lazy" /\ deps
                  THEN RenderEffect(pdfDocRef, currentPage, numPages, dims,
                                    d.isMobile, pageImages, rp, pagesToRender)
                  ELSE [set |-> pagesToRender, started |-> <<>>]
       IN  /\ dimensions' = dims
           /\ isMobile' = d.isMobile
           /\ renderPage' = IF variant = "lazy" THEN rp ELSE renderPage
           /\ pagesToRender' = eff.set
           /\ loops' = loops \o eff.started
           /\ loads' = IF variant = "eager" /\ dims # dimensions /\ dims.width # 0
                       THEN Append(loads, NewLoad(dims))
                       ELSE loads
    /\ Len(loops') <= MaxLoops
    /\ Len(loads') <= MaxLoops
    /\ UNCHANGED <<variant, pdfNumPages, mounted, numPages, currentPage,
                   pageImages, pdfDocRef, loadPdfDoc>>

\* A resize handler after which the effects run whether or not a dependency
\* changed.
ResizeRerunsEffects(vp) ==
    /\ mounted
    /\ innerWidth' = vp[1]
    /\ innerHeight' = vp[2]
    /\ LET d == CalculateDimensions(variant, vp[1], vp[2])
           dims == [width |-> d.width, height |-> d.height]
           rp == Memoized(renderPage, numPages, dims.width, pageImages)
           eff == IF variant = "lazy"
                  THEN RenderEffect(pdfDocRef, currentPage, numPages, dims,
                                    d.isMobile, pageImages, rp, pagesToRender)
                  ELSE [set |-> pagesToRender, started |-> <<>>]
       IN  /\ dimensions' = dims
           /\ isMobile' = d.isMobile
           /\ renderPage' = IF variant = "lazy" THEN rp ELSE renderPage
           /\ pagesToRender' = eff.set
           /\ loops' = loops \o eff.started
           /\ loads' = IF variant = "eager" /\ dims.width # 0
                       THEN Append(loads, NewLoad(dims))
                       ELSE loads
    /\ Len(loops') <= MaxLoops
    /\ Len(loads') <= MaxLoops
    /\ UNCHANGED <<variant, pdfNumPages, mounted, numPages, currentPage,
                   pageImages, pdfDocRef, loadPdfDoc>>

(***************************************************************************)
(* A resize, orientationchange or ResizeObserver event with the window at  *)
(* size vp (which may be the size it already has): calculateDimensions.    *)
(***************************************************************************)
Resize(vp) ==
    /\ mounted
    /\ innerWidth' = vp[1]
    /\ innerHeight' = vp[2]
    /\ LET d == CalculateDimensions(variant, vp[1], vp[2])
           dims == [width |-> d.width, height |-> d.height]
           rp == Memoized(renderPage, numPages, dims.width, pageImages)
           deps == dims # dimensions \/ d.isMobile # isMobile
           eff == IF variant = "lazy" /\ deps
                  THEN RenderEffect(pdfDocRef, currentPage, numPages, dims,
                                    d.isMobile, pageImages, rp, pagesToRender)
                  ELSE [set |-> pagesToRender, started |-> <<>>]
       IN  /\ dimensions' = dims
           /\ isMobile' = d.isMobile
           /\ renderPage' = IF variant = "lazy" THEN rp ELSE renderPage
           /\ pagesToRender' = eff.set
           /\ loops' = loops \o eff.started
           /\ loads' = IF variant = "eager" /\ dims # dimensions /\ dims.width # 0
                       THEN Append(loads, NewLoad(dims))
                       ELSE loads
    /\ Len(loops') <= MaxLoops
    /\ Len(loads') <= MaxLoops
    /\ UNCHANGED <<variant, pdfNumPages, mounted, numPages, currentPage,
                   pageImages, pdfDocRef, loadPdfDoc>>

(***************************************************************************)
(* onFlip: the flip-book reports page p as the current one.  The book is   *)
(* rendered only once the loading screen is gone.                          *)
(***************************************************************************)
BookShown ==
    /\ dimensions.width # 0
    /\ IF variant = "static" THEN Len(pageImages) # 0 ELSE numPages # 0

Flip(p) ==
    /\ BookShown
    /\ p # currentPage
    /\ currentPage' = p
    /\ LET eff == IF variant = "lazy"
                  THEN RenderEffect(pdfDocRef, p, numPages, dimensions, isMobile,
                                    pageImages, renderPage, pagesToRender)
                  ELSE [set |-> pagesToRender, started |-> <<>>]
       IN  /\ pagesToRender' = eff.set
           /\ loops' = loops \o eff.started
    /\ Len(loops') <= MaxLoops
    /\ UNCHANGED <<variant, pdfNumPages, innerWidth, innerHeight, mounted,
                   numPages, pageImages, dimensions, isMobile, pdfDocRef,
                   renderPage, loadPdfDoc, loads>>

\* The page indices the flip-book can report: those of its children.
FlipData == 0..(Len(pageImages) - 1)

(***************************************************************************)
(* lazy: await loadingTask.promise of loadPdfDoc settles.  Fulfilled: the  *)
(* ref, numPages and the null slots are set; in the render that follows    *)
(* renderPage is re-memoized and the render effect runs (numPages changed).*)
(* Rejected: the catch logs the error.                                     *)
(***************************************************************************)
LoadPdfDocSettle(ok) ==
    /\ variant = "lazy"
    /\ loadPdfDoc = "pending"
    /\ IF ok
       THEN LET images == Nulls(pdfNumPages)
                rp == Memoized(renderPage, pdfNumPages, dimensions.width, images)
                eff == RenderEffect(TRUE, currentPage, pdfNumPages, dimensions,
                                    isMobile, images, rp, pagesToRender)
            IN  /\ loadPdfDoc' = "done"
                /\ pdfDocRef' = TRUE
                /\ numPages' = pdfNumPages
                /\ pageImages' = images
                /\ renderPage' = rp
                /\ pagesToRender' = eff.set
                /\ loops' = loops \o eff.started
       ELSE /\ loadPdfDoc' = "failed"
            /\ UNCHANGED <<pdfDocRef, numPages, pageImages, renderPage,
                           pagesToRender, loops>>
    /\ UNCHANGED <<variant, pdfNumPages, innerWidth, innerHeight, mounted,
                   currentPage, dimensions, isMobile, loads>>

\* lazy: renderPage of loop k has returned (its render stored, or its error
\* caught); renderSequential goes on to the next page of renderNeeded.
Continue(k) ==
    LET loop == loops[k]
        left == RunOn(Tail(loop.renderNeeded), loop.renderPage, pdfDocRef,
                      loop.width)
    IN  IF left = <<>> THEN Remove(loops, k)
        ELSE [loops EXCEPT ![k] = [loop EXCEPT !.renderNeeded = left,
                                                !.pc = "getPage"]]

(***************************************************************************)
(* lazy: await pdfDocRef.current.getPage(pageIndex + 1) of loop k settles. *)
(* Fulfilled: the canvas is made and page.render starts.                   *)
(***************************************************************************)
GetPageSettle(k, ok) ==
    /\ variant = "lazy"
    /\ k \in DOMAIN loops
    /\ loops[k].pc = "getPage"
    /\ loops' = IF ok THEN [loops EXCEPT ![k].pc = "render"] ELSE Continue(k)
    /\ UNCHANGED <<variant, pdfNumPages, innerWidth, innerHeight, mounted,
                   numPages, currentPage, pageImages, dimensions, isMobile,
                   pdfDocRef, renderPage, pagesToRender, loadPdfDoc, loads>>

\* setPageImages(prev => { newImages[pageIndex] = imageDataUrl; ... })
\* (An assignment past the end of a JavaScript array lengthens it, the
\* elements between being empty.)
StoreImage(prev, pageIndex, width, height) ==
    [k \in 1..Max(Len(prev), pageIndex + 1) |->
        IF k = pageIndex + 1 THEN Image(pageIndex, width, height)
        ELSE IF k \in DOMAIN prev THEN prev[k] ELSE null]

(***************************************************************************)
(* lazy: await page.render(...).promise of loop k settles.  Fulfilled: the *)
(* canvas becomes a data URL, stored in the page's slot.                   *)
(***************************************************************************)
RenderSettle(k, ok) ==
    /\ variant = "lazy"
    /\ k \in DOMAIN loops
    /\ loops[k].pc = "render"
    /\ pageImages' = IF ok
                     THEN StoreImage(pageImages, Head(loops[k].renderNeeded),
                                     loops[k].width, loops[k].height)
                     ELSE pageImages
    /\ loops' = Continue(k)
    /\ UNCHANGED <<variant, pdfNumPages, innerWidth, innerHeight, mounted,
                   numPages, currentPage, dimensions, isMobile, pdfDocRef,
                   renderPage, pagesToRender, loadPdfDoc, loads>>

\* A loadPdf whose catch resets the page count.
GetDocumentSettleResetting(k, ok) ==
    /\ variant = "eager"
    /\ k \in DOMAIN loads
    /\ loads[k].pc = "getDocument"
    /\ IF ok
       THEN /\ pdfDocRef' = TRUE
            /\ numPages' = pdfNumPages
            /\ pageImages' = Nulls(pdfNumPages)
            /\ loads' = IF 1 <= pdfNumPages
                        THEN [loads EXCEPT ![k] = [@ EXCEPT !.pc = "getPage",
                                                     !.i = 1,
                                                     !.images = Nulls(pdfNumPages)]]
                        ELSE Remove(loads, k)
       ELSE /\ loads' = Remove(loads, k)
            /\ numPages' = 0
            /\ UNCHANGED <<pdfDocRef, pageImages>>
    /\ UNCHANGED <<variant, pdfNumPages, innerWidth, innerHeight, mounted,
                   currentPage, dimensions, isMobile, renderPage,
                   pagesToRender, loadPdfDoc, loops>>

(***************************************************************************)
(* eager: await loadingTask.promise of load k settles.  Fulfilled: the     *)
(* ref, numPages and the null slots are set and the for loop reaches       *)
(* await pdf.getPage(1).  Rejected (here and below): the catch around the  *)
(* whole of loadPdf logs the error and loadPdf returns.                    *)
(***************************************************************************)
GetDocumentSettle(k, ok) ==
    /\ variant = "eager"
    /\ k \in DOMAIN loads
    /\ loads[k].pc = "getDocument"
    /\ IF ok
       THEN /\ pdfDocRef' = TRUE
            /\ numPages' = pdfNumPages
            /\ pageImages' = Nulls(pdfNumPages)
            /\ loads' = IF 1 <= pdfNumPages
                        THEN [loads EXCEPT ![k] = [@ EXCEPT !.pc = "getPage",
                                                     !.i = 1,
                                                     !.images = Nulls(pdfNumPages)]]
                        ELSE Remove(loads, k)
       ELSE /\ loads' = Remove(loads, k)
            /\ UNCHANGED <<pdfDocRef, numPages, pageImages>>
    /\ UNCHANGED <<variant, pdfNumPages, innerWidth, innerHeight, mounted,
                   currentPage, dimensions, isMobile, renderPage,
                   pagesToRender, loadPdfDoc, loops>>

\* eager: await pdf.getPage(i) of load k settles.
LoadGetPageSettle(k, ok) ==
    /\ variant = "eager"
    /\ k \in DOMAIN loads
    /\ loads[k].pc = "getPage"
    /\ loads' = IF ok THEN [loads EXCEPT ![k].pc = "render"] ELSE Remove(loads, k)
    /\ UNCHANGED <<variant, pdfNumPages, innerWidth, innerHeight, mounted,
                   numPages, currentPage, pageImages, dimensions, isMobile,
                   pdfDocRef, renderPage, pagesToRender, loadPdfDoc, loops>>

(***************************************************************************)
(* eager: await page.render(...).promise of load k settles.  Fulfilled:    *)
(* images[i - 1] = imageDataUrl; setPageImages([...images]); i++.          *)
(***************************************************************************)
LoadRenderSettle(k, ok) ==
    /\ variant = "eager"
    /\ k \in DOMAIN loads
    /\ loads[k].pc = "render"
    /\ IF ok
       THEN LET load == loads[k]
                images == StoreImage(load.images, load.i - 1, load.width,
                                     load.height)
            IN  /\ pageImages' = images
                /\ loads' = IF load.i + 1 <= Len(load.images)
                            THEN [loads EXCEPT ![k] = [load EXCEPT !.pc = "getPage",
                                                          !.i = load.i + 1,
                                                          !.images = images]]
                            ELSE Remove(loads, k)
       ELSE /\ loads' = Remove(loads, k)
            /\ UNCHANGED pageImages
    /\ UNCHANGED <<variant, pdfNumPages, innerWidth, innerHeight, mounted,
                   numPages, currentPage, dimensions, isMobile, pdfDocRef,
                   renderPage, pagesToRender, loadPdfDoc, loops>>

Next ==
    \/ Mount
    \/ \E vp \in Viewports : Resize(vp)
    \/ \E p \in FlipData : Flip(p)
    \/ \E ok \in BOOLEAN : LoadPdfDocSettle(ok)
    \/ \E k \in 1..MaxLoops, ok \in BOOLEAN : GetPageSettle(k, ok)
    \/ \E k \in 1..MaxLoops, ok \in BOOLEAN : RenderSettle(k, ok)
    \/ \E k \in 1..MaxLoops, ok \in BOOLEAN : GetDocumentSettle(k, ok)
    \/ \E k \in 1..MaxLoops, ok \in BOOLEAN : LoadGetPageSettle(k, ok)
    \/ \E k \in 1..MaxLoops, ok \in BOOLEAN : LoadRenderSettle(k, ok)

Spec == Init /\ [][Next]_vars

(***************************************************************************)
(* SettleSpec: the program when no promise is rejected (every document     *)
(* load and every page render that starts settles successfully).           *)
(***************************************************************************)
SettleNext ==
    \/ Mount
    \/ \E vp \in Viewports : Resize(vp)
    \/ \E p \in FlipData : Flip(p)
    \/ LoadPdfDocSettle(TRUE)
    \/ \E k \in 1..MaxLoops : GetPageSettle(k, TRUE)
    \/ \E k \in 1..MaxLoops : RenderSettle(k, TRUE)
    \/ \E k \in 1..MaxLoops : GetDocumentSettle(k, TRUE)
    \/ \E k \in 1..MaxLoops : LoadGetPageSettle(k, TRUE)
    \/ \E k \in 1..MaxLoops : LoadRenderSettle(k, TRUE)

SettleSpec == Init /\ [][SettleNext]_vars

(***************************************************************************)
(* LayoutSpec: the first layout calculation (at mount) of each version,    *)
(* for every window size of LayoutViewports.                               *)
(***************************************************************************)
LayoutInit == InitOf(Variants, LayoutViewports, {1})

LayoutNext == Mount

LayoutSpec == LayoutInit /\ [][LayoutNext]_vars

(***************************************************************************)
(* RenderSetSpec: the lazy version with a PDF of 1..MaxDocPages pages, in  *)
(* a desktop and in a mobile window, up to the first flips after the load: *)
(* the render effect's Set for every current page.                         *)
(***************************************************************************)
RenderSetInit ==
    InitOf({"lazy"}, {<<1920, 1080>>, <<400, 800>>}, 1..MaxDocPages)

RenderSetNext ==
    \/ Mount
    \/ \E ok \in BOOLEAN : LoadPdfDocSettle(ok)
    \/ \E p \in FlipData : Flip(p)

RenderSetSpec == RenderSetInit /\ [][RenderSetNext]_vars

(***************************************************************************)
(* WidgetSpec: the program when no promise is rejected and the flip event  *)
(* may carry any integer up to FlipSlack outside the indices of the book's *)
(* children (e.data is untyped, and onFlip stores it as it comes).         *)
(***************************************************************************)
AnyFlipData == (0 - FlipSlack)..(Len(pageImages) - 1 + FlipSlack)

WidgetNext ==
    \/ Mount
    \/ \E vp \in Viewports : Resize(vp)
    \/ \E p \in AnyFlipData : Flip(p)
    \/ LoadPdfDocSettle(TRUE)
    \/ \E k \in 1..MaxLoops : GetPageSettle(k, TRUE)
    \/ \E k \in 1..MaxLoops : RenderSettle(k, TRUE)
    \/ \E k \in 1..MaxLoops : GetDocumentSettle(k, TRUE)
    \/ \E k \in 1..MaxLoops : LoadGetPageSettle(k, TRUE)
    \/ \E k \in 1..MaxLoops : LoadRenderSettle(k, TRUE)

WidgetSpec == Init /\ [][WidgetNext]_vars

(***************************************************************************)
(* ResizeSpec: the program with window sizes of which two, 400x800 and     *)
(* 400x850 (a phone whose address bar hides), have the same layout.        *)
(***************************************************************************)
ResizeViewports == {<<400, 800>>, <<400, 850>>, <<1920, 1080>>}

ResizeInit == InitOf(Variants, ResizeViewports, 1..MaxPages)

ResizeNext ==
    \/ Mount
    \/ \E vp \in ResizeViewports : Resize(vp)
    \/ \E p \in FlipData : Flip(p)
    \/ \E ok \in BOOLEAN : LoadPdfDocSettle(ok)
    \/ \E k \in 1..MaxLoops, ok \in BOOLEAN : GetPageSettle(k, ok)
    \/ \E k \in 1..MaxLoops, ok \in BOOLEAN : RenderSettle(k, ok)
    \/ \E k \in 1..MaxLoops, ok \in BOOLEAN : GetDocumentSettle(k, ok)
    \/ \E k \in 1..MaxLoops, ok \in BOOLEAN : LoadGetPageSettle(k, ok)
    \/ \E k \in 1..MaxLoops, ok \in BOOLEAN : LoadRenderSettle(k, ok)

ResizeSpec == ResizeInit /\ [][ResizeNext]_vars

(***************************************************************************)
(* The navigation controls that the component renders once the book is     *)
(* shown: the two buttons and the page indicator.                          *)
(***************************************************************************)
\* getDisplayPages without the case of the cover.
GetDisplayPagesNoCover(mobile, current, n) ==
    IF mobile THEN ToString(current + 1)
    ELSE LET leftPage == current + 1
             rightPage == Min(current + 2, n)
         IN  IF leftPage = rightPage \/ rightPage > n
             THEN ToString(leftPage)
             ELSE ToString(leftPage) \o " - " \o ToString(rightPage)

\* getDisplayPages(), of the render with these isMobile, currentPage and
\* numPages.
GetDisplayPages(mobile, current, n) ==
    IF mobile THEN ToString(current + 1)
    ELSE IF current = 0 THEN "1"
    ELSE LET leftPage == current + 1
             rightPage == Min(current + 2, n)
         IN  IF leftPage = rightPage \/ rightPage > n
             THEN ToString(leftPage)
             ELSE ToString(leftPage) \o " - " \o ToString(rightPage)

\* <span className="page-indicator">{getDisplayPages()} / {numPages}</span>
PageIndicator ==
    GetDisplayPages(isMobile, currentPage, numPages) \o " / "
        \o ToString(numPages)

\* <button ... disabled={currentPage === 0}>
PrevDisabled == currentPage = 0

\* <button ... disabled={currentPage >= numPages - 1}>
NextDisabled == currentPage >= numPages - 1

(***************************************************************************)
(* Properties.                                                             *)
(***************************************************************************)
Rendering == variant \in {"lazy", "eager"}

\* Slot i holds an image rendered for the current target size.
AtCurrentSize(i) ==
    /\ pageImages[i] # null
    /\ pageImages[i].width = dimensions.width
    /\ pageImages[i].height = dimensions.height

\* C1 (Invalidation): in every reachable state of the versions that render
\* pages, every slot that holds an image holds one that was rendered for the
\* current target size (dimensions.width, dimensions.height).
C1_Invalidation ==
    Rendering =>
        \A i \in DOMAIN pageImages : pageImages[i] # null => AtCurrentSize(i)

\* C2 (Cancellation by discard): a step stores a render result in a slot
\* only if the size the render was requested at is the current target size
\* at that moment: every slot that holds a new image after a step holds one
\* of the current size.
C2_DiscardStale ==
    [][Rendering =>
         \A i \in DOMAIN pageImages' :
            (/\ pageImages'[i] # null
             /\ (i \notin DOMAIN pageImages \/ pageImages[i] # pageImages'[i]))
            => /\ pageImages'[i].width = dimensions'.width
               /\ pageImages'[i].height = dimensions'.height]_vars

\* The page renders that have started and not settled: one per suspended
\* renderSequential (it is always inside a renderPage) and one per loadPdf
\* that is past the document load.
RendersInFlight ==
    Len(loops)
    + Cardinality({k \in DOMAIN loads : loads[k].pc \in {"getPage", "render"}})

\* C3: at most one page render is in flight at any time.
C3_OneRenderInFlight == RendersInFlight <= 1

\* Nothing is suspended: no render is in flight or queued.
Quiescent == loops = <<>> /\ loads = <<>>

\* The indices of the render set of the current page that are pages.
CurrentRenderSet ==
    {idx \in Range(PagesToRender(currentPage, isMobile, numPages)) :
        idx < numPages}

\* C4 (Eventual rendering), in the form a finite run refutes.  Under
\* SettleSpec (every started render settles successfully): once the document
\* is loaded and every loop has run to its end, so that nothing changes any
\* more unless the window or the current page does, every index of the
\* render set of the current page holds an image rendered at the current
\* target size.
C4_EventuallyRendered ==
    (Rendering /\ pdfDocRef /\ numPages # 0 /\ Quiescent)
        => \A idx \in CurrentRenderSet : AtCurrentSize(idx + 1)

\* C5 (Display mode): after a layout calculation the mode is Single exactly
\* when height > width or width < 768, and Spread otherwise.
C5_ModeSelection ==
    mounted => (isMobile <=> (innerHeight > innerWidth \/ innerWidth < 768))

\* The square window at the breakpoint is laid out as a spread.
C5_Witness ==
    mounted /\ innerWidth = 768 /\ innerHeight = 768 /\ ~isMobile

\* C6 (Aspect ratio): after a layout calculation the page size is the floor
\* of a size of the configured ratio: -11 < 11*pageW - 17*pageH < 17 for
\* 17/11, and -3 < 3*pageW - 5*pageH < 5 for 5500/3300.
C6_AspectRatio ==
    mounted =>
        LET e17 == 11 * dimensions.width - 17 * dimensions.height
            e5 == 3 * dimensions.width - 5 * dimensions.height
        IN  IF variant = "static" THEN -3 < e5 /\ e5 < 5
            ELSE -11 < e17 /\ e17 < 17

\* C7 (Minimum size): after the first layout calculation the page is at
\* least 200 by 130, for every window size.
C7_MinimumSize ==
    mounted => dimensions.width >= 200 /\ dimensions.height >= 130

\* A window smaller than the reserved padding is laid out at the minimum.
C7_Witness ==
    /\ mounted /\ innerWidth < 20 /\ innerHeight < 80
    /\ dimensions = [width |-> 200, height |-> 130]

\* C8 (Fit): with availW = width - (20 if Single else 40) and
\* availH = height - (80 if Single else 100), whenever the size before the
\* minimum is at least 200 by 130 it is the output, it fits the available
\* box (two pages side by side in Spread) and it is maximal: pageW is the
\* floor of the binding width or pageH is availH.
C8_FitsAvailableBox ==
    mounted =>
        LET availW == innerWidth - (IF isMobile THEN 20 ELSE 40)
            availH == innerHeight - (IF isMobile THEN 80 ELSE 100)
            unclamped == FitPage(AspectNum(variant), AspectDen(variant),
                                 isMobile, availW, availH)
            pageW == dimensions.width
            pageH == dimensions.height
        IN  (unclamped[1] >= 200 /\ unclamped[2] >= 130) =>
               /\ pageW = unclamped[1] /\ pageH = unclamped[2]
               /\ pageH <= availH
               /\ IF isMobile THEN pageW <= availW ELSE 2 * pageW <= availW
               /\ \/ pageW = (IF isMobile THEN availW ELSE availW \div 2)
                  \/ pageH = availH

\* The portrait window 400 by 800 gets one page of 380 by 245.
C8_Witness ==
    /\ mounted /\ variant = "lazy" /\ innerWidth = 400 /\ innerHeight = 800
    /\ isMobile /\ dimensions = [width |-> 380, height |-> 245]

\* C9 (Layout scenario): a window of 1920 by 1080 with ratio 17/11 is laid
\* out as a spread, width-constrained in the box of 1880 by 980: pageW = 940
\* (half of 1920 - 40) and pageH = 608.
C9_Scenario1920x1080 ==
    (mounted /\ variant # "static" /\ innerWidth = 1920 /\ innerHeight = 1080)
        => /\ ~isMobile
           /\ 2 * dimensions.width = 1920 - 40
           /\ dimensions.height < 1080 - 100
           /\ dimensions = [width |-> 940, height |-> 608]

C9_Witness ==
    mounted /\ variant = "eager" /\ innerWidth = 1920 /\ innerHeight = 1080

\* C10 (Render-set scenario): with 24 pages, current index 5 and Spread
\* mode the render set is exactly {1, ..., 10}.
C10_RenderSetScenario ==
    (variant = "lazy" /\ pdfDocRef /\ numPages = 24 /\ currentPage = 5
     /\ ~isMobile)
        => Range(pagesToRender) = 1..10

\* The page indices of a document of n pages.
PageIndices(n) == 0..(n - 1)

\* C11 (Render-set bounds): when the current page c is a page of the loaded
\* document, the Set built by the render effect contains c, contains c + 1
\* in Spread mode (when that is a page), contains every page within the
\* buffer distance (2 in Single, 4 in Spread) of c, and contains only
\* indices in [0, N-1]; and every render in flight is of a page in [0, N-1].
C11_RenderSetBounds ==
    (variant = "lazy" /\ pdfDocRef /\ numPages # 0
     /\ currentPage \in PageIndices(numPages))
        => LET set == Range(pagesToRender)
               distance == IF isMobile THEN 2 ELSE 4
           IN  /\ currentPage \in set
               /\ (~isMobile /\ currentPage + 1 \in PageIndices(numPages))
                     => currentPage + 1 \in set
               /\ \A idx \in PageIndices(numPages) :
                     (idx - currentPage <= distance
                      /\ currentPage - idx <= distance) => idx \in set
               /\ set \subseteq PageIndices(numPages)
               /\ \A k \in DOMAIN loops :
                     Head(loops[k].renderNeeded) \in PageIndices(numPages)

\* C12 (Slot count): once the document is loaded with N pages, pageImages
\* has exactly N entries in every reachable state, whatever the interleaving
\* of loads, reloads, resizes, flips and render successes and failures; in
\* the static version it has exactly 24 entries once initialised.
C12_SlotCount ==
    /\ (Rendering /\ numPages # 0) =>
            (numPages = pdfNumPages /\ Len(pageImages) = numPages)
    /\ (variant = "static" /\ mounted) => Len(pageImages) = StaticNumPages

\* Overlapping work at the two sizes has stored into the slots of a
\* three-page document, the last slot among them.
C12_Witness ==
    /\ Rendering /\ numPages = 3 /\ Len(pageImages) = 3
    /\ Truthy(pageImages, 2)
    /\ \E i, j \in PageIndices(3) :
          /\ Truthy(pageImages, i) /\ Truthy(pageImages, j)
          /\ pageImages[i + 1].width # pageImages[j + 1].width

\* C13 (Current page bounds): once the book is shown, currentPage is a page
\* index, in [0, N-1], in every reachable state, whatever index the flip
\* events carried: onFlip stores the index clamped into that range.
C13_CurrentPageBounds ==
    BookShown => currentPage \in PageIndices(Len(pageImages))

\* A step in which the render effect of the lazy version computes its Set:
\* one that changes a dependency (a flip, a size or mode change, the load)
\* and leaves the document loaded and the size known.
RenderSetComputed ==
    /\ variant = "lazy" /\ pdfDocRef' /\ numPages' # 0 /\ dimensions'.width # 0
    /\ \/ currentPage' # currentPage \/ numPages' # numPages
       \/ dimensions' # dimensions \/ isMobile' # isMobile

\* C14 (Per-page render failure), lazy version.  A step in which getPage or
\* render of a page is rejected writes no image: every slot is as it was,
\* the failed page's slot absent if it was.  And whenever a render set is
\* computed (after a flip or a size change), every page of it whose slot is
\* absent, so every page whose render failed, is in the queue of the render
\* loop started by that step: its render is started again.
C14_FailedPageRetried ==
    [][ /\ (\E k \in DOMAIN loops :
               GetPageSettle(k, FALSE) \/ RenderSettle(k, FALSE))
            => pageImages' = pageImages
        /\ RenderSetComputed =>
             \A idx \in Range(pagesToRender') \cap PageIndices(numPages') :
                ~Truthy(pageImages', idx) =>
                    /\ Len(loops') = Len(loops) + 1
                    /\ idx \in Range(loops'[Len(loops')].renderNeeded)
      ]_vars

\* Page 0 of a two-page document is being rendered again.  The loop started
\* by the load (queue 0, 1) has ended with slot 0 absent, so its render of
\* page 0 failed; the one loop there is was started by a render set computed
\* on page 1, has rendered page 1 and has now started the render of page 0.
C14_Witness ==
    /\ variant = "lazy" /\ numPages = 2 /\ currentPage = 1
    /\ ~Truthy(pageImages, 0) /\ Truthy(pageImages, 1)
    /\ Len(loops) = 1
    /\ loops[1].renderNeeded = <<0>> /\ loops[1].pc = "render"

\* Loop k of the lazy version, if pages that renderPage will not skip are
\* queued after the one in flight, is still there after the step, on the
\* same page or on the next of them.
LoopGoesOn(k) ==
    LET loop == loops[k]
        left == RunOn(Tail(loop.renderNeeded), loop.renderPage, pdfDocRef,
                      loop.width)
    IN  left # <<>> =>
            \E k2 \in DOMAIN loops' :
                /\ loops'[k2].renderPage = loop.renderPage
                /\ loops'[k2].width = loop.width
                /\ loops'[k2].height = loop.height
                /\ loops'[k2].renderNeeded \in {loop.renderNeeded, left}

\* Load k of the eager version, if it is rendering a page that is not the
\* last, is still there after the step, on the same page or on the next.
LoadGoesOn(k) ==
    LET load == loads[k]
    IN  (load.pc \in {"getPage", "render"} /\ load.i < Len(load.images)) =>
            \E k2 \in DOMAIN loads' :
                /\ loads'[k2].pc \in {"getPage", "render"}
                /\ loads'[k2].width = load.width
                /\ loads'[k2].height = load.height
                /\ loads'[k2].i \in {load.i, load.i + 1}

\* C15 (Sequential rendering and continuation): a render loop has one page
\* in flight at a time, and when that render settles, fulfilled or rejected,
\* the loop goes on to the next page of its queue: no step ends a loop that
\* has pages left to render.
C15_LoopContinues ==
    [][ /\ \A k \in DOMAIN loops : LoopGoesOn(k)
        /\ \A k \in DOMAIN loads : LoadGoesOn(k) ]_vars

\* The loading of the document has failed: the versions that load a PDF are
\* mounted, no load is pending and numPages is still 0 (the component shows
\* the loading screen).
LoadFailed ==
    /\ Rendering /\ mounted /\ numPages = 0
    /\ loadPdfDoc # "pending" /\ loads = <<>>

\* C16 (Document load failure): once the loading of the document has failed,
\* no event starts another load attempt and numPages stays 0: the state
\* "load failed" is never left, so the viewer shows the loading screen for
\* ever.
C16_LoadFailureIsFinal == [][LoadFailed => LoadFailed']_vars

\* A render of page idx is in flight: a loop of the lazy version or a load
\* of the eager version is at its getPage or its render.
RenderInFlight(idx) ==
    \/ \E k \in DOMAIN loops : Head(loops[k].renderNeeded) = idx
    \/ \E k \in DOMAIN loads :
          loads[k].pc \in {"getPage", "render"} /\ loads[k].i = idx + 1

\* The state of the slot of page idx.
SlotState(idx) ==
    IF Truthy(pageImages, idx) THEN "Rendered"
    ELSE IF RenderInFlight(idx) THEN "Rendering"
    ELSE "Absent"

\* C17 (Slot state machine): in every step of the versions that render
\* pages, a slot that holds an image becomes absent when the target size
\* changes, and a slot becomes Rendered only from Rendering, that is by the
\* settling of a render of its page that was in flight.
C17_SlotTransitions ==
    [][ (Rendering /\ numPages # 0 /\ numPages' = numPages) =>
          \A idx \in PageIndices(numPages) :
             /\ (SlotState(idx) = "Rendered" /\ dimensions' # dimensions)
                    => SlotState(idx)' # "Rendered"
             /\ SlotState(idx)' = "Rendered"
                    => SlotState(idx) \in {"Rendering", "Rendered"}
      ]_vars

\* The pages on show: the current page, and in Spread mode the page after
\* it, which the cover (page 0) does not have beside it.
VisiblePages ==
    IF isMobile \/ currentPage = 0 THEN {currentPage}
    ELSE {currentPage, currentPage + 1}

\* C18 (Navigation buttons): with the book shown on a page c in [0, N-1],
\* the previous button is disabled exactly when c = 0, and the next button
\* is disabled exactly when the last page, N - 1, is one of the pages on
\* show: c itself, or in Spread mode c + 1.
C18_NavigationButtons ==
    (BookShown /\ currentPage \in PageIndices(numPages)) =>
        /\ PrevDisabled <=> currentPage = 0
        /\ NextDisabled <=> (numPages - 1) \in VisiblePages

\* The text of the indicator for these page numbers and this total.
IndicatorText(pages, n) == pages \o " / " \o ToString(n)

\* The ways of writing the range of two page numbers.
RangeSeparators == {" - ", "-", " -- ", "--"}

\* Every number of the text of getDisplayPages is between 1 and N: the text
\* is one such number, or two of them with " - " between.
NumbersWithin(text, n) ==
    \E a, b \in 1..n :
        text \in {ToString(a), ToString(a) \o " - " \o ToString(b)}

\* C19 (Page indicator), as claimed: with the book shown on a page c in
\* [0, N-1], the indicator is c + 1 followed by " / N" in Single mode and the
\* range of the two pages c + 1 and c + 2 followed by " / N" in Spread mode,
\* and the numbers shown are between 1 and N.
C19_PageIndicator ==
    (BookShown /\ currentPage \in PageIndices(numPages)) =>
        /\ isMobile =>
              PageIndicator = IndicatorText(ToString(currentPage + 1), numPages)
        /\ ~isMobile =>
              \E sep \in RangeSeparators :
                 PageIndicator =
                    IndicatorText(ToString(currentPage + 1) \o sep
                                     \o ToString(currentPage + 2), numPages)
        /\ NumbersWithin(GetDisplayPages(isMobile, currentPage, numPages),
                         numPages)

\* C19, amended: in Single mode the indicator is c + 1 followed by " / N";
\* in Spread mode it is "1 / N" on the cover (c = 0), "N / N" on the last
\* page (c = N - 1), and otherwise the range "c+1 - c+2" followed by " / N";
\* the numbers shown are between 1 and N.
C19_PageIndicatorAmended ==
    (BookShown /\ currentPage \in PageIndices(numPages)) =>
        /\ isMobile =>
              PageIndicator = IndicatorText(ToString(currentPage + 1), numPages)
        /\ (~isMobile /\ currentPage = 0) =>
              PageIndicator = IndicatorText("1", numPages)
        /\ (~isMobile /\ currentPage = numPages - 1) =>
              PageIndicator = IndicatorText(ToString(numPages), numPages)
        /\ (~isMobile /\ currentPage # 0 /\ currentPage # numPages - 1) =>
              PageIndicator =
                 IndicatorText(ToString(currentPage + 1) \o " - "
                                  \o ToString(currentPage + 2), numPages)
        /\ NumbersWithin(GetDisplayPages(isMobile, currentPage, numPages),
                         numPages)

\* The cover of a 24-page book in Spread mode: one number, not a range.
C19_Witness ==
    /\ BookShown /\ ~isMobile /\ numPages = 24 /\ currentPage = 0
    /\ pdfDocRef /\ PageIndicator = "1 / 24"

\* C20 (Layout idempotence): the layout is a function of the viewport alone.
\* In every reachable state after the mount, whatever resizes, flips, loads
\* and renders came before and in whatever order, the page size and the mode
\* are those that the layout calculation gives for the window's present
\* size: two states with the same viewport have the same layout.
C20_LayoutOfViewportAlone ==
    mounted =>
        [width |-> dimensions.width, height |-> dimensions.height,
         isMobile |-> isMobile]
            = CalculateDimensions(variant, innerWidth, innerHeight)

\* Back at 1920x1080 after a render at the other size and a flip: the
\* layout is again 940x608 in Spread mode.
C20_Witness ==
    /\ Rendering /\ mounted /\ innerWidth = 1920 /\ innerHeight = 1080
    /\ currentPage # 0
    /\ \E i \in DOMAIN pageImages :
          pageImages[i] # null /\ pageImages[i].width # dimensions.width
    /\ \E i \in DOMAIN pageImages : AtCurrentSize(i)
    /\ dimensions = [width |-> 940, height |-> 608] /\ ~isMobile

\* C21 (Immutable page count): once numPages is a non-zero N, no step of
\* any version gives it another value, whatever resizes, flips, reloads
\* (fulfilled or rejected) and renders happen.
C21_PageCountImmutable == [][numPages # 0 => numPages' = numPages]_vars

\* The eager version has set numPages twice: a load at the current size is
\* past its getDocument while the slots hold an image of a load at another
\* size.
C21_Witness ==
    /\ variant = "eager" /\ numPages = 3
    /\ \E k \in DOMAIN loads :
          /\ loads[k].pc \in {"getPage", "render"}
          /\ loads[k].width = dimensions.width
    /\ \E i \in DOMAIN pageImages :
          pageImages[i] # null /\ pageImages[i].width # dimensions.width

\* The loops of the lazy version that start a render in this step: those
\* at getPage after the step that were not there, so, before it.
RenderStarts ==
    {k2 \in DOMAIN loops' :
        /\ loops'[k2].pc = "getPage"
        /\ \A k \in DOMAIN loops : loops[k] # loops'[k2]}

\* C22 (No redundant render), lazy version: whenever a loop starts the
\* render of a page, in a new loop or on going on to the next page of its
\* queue, the slot of that page does not hold an image rendered for the
\* current size, however the loops started by successive flips and resizes
\* overlap.
C22_NoRedundantRender ==
    [][ variant = "lazy" =>
          \A k2 \in RenderStarts :
             LET idx == Head(loops'[k2].renderNeeded)
             IN  ~ /\ Truthy(pageImages', idx)
                   /\ pageImages'[idx + 1].width = dimensions'.width
                   /\ pageImages'[idx + 1].height = dimensions'.height
      ]_vars

\* The slots whose content this step changes.
ChangedSlots == {i \in DOMAIN pageImages : pageImages'[i] # pageImages[i]}

\* This step is the completion of a render: it writes an image into a slot.
RenderCompletes ==
    /\ Rendering /\ numPages # 0 /\ numPages' = numPages
    /\ \E i \in DOMAIN pageImages :
          pageImages'[i] # null /\ pageImages'[i] # pageImages[i]

\* C23 (No lost updates between render completions): a step that completes
\* the render of a page, from whatever loop or load and with the target
\* size unchanged, changes the slot of that page only: every other slot that
\* held an image still holds the same image.
C23_NoLostUpdates ==
    [][ (RenderCompletes /\ dimensions' = dimensions) =>
          /\ Cardinality(ChangedSlots) = 1
          /\ \A i \in DOMAIN pageImages :
                pageImages[i] # null => pageImages'[i] # null
      ]_vars

\* C24 (Unchanged size is a no-op): a resize event that finds the window at
\* another size but computes the page size and mode the component already
\* has starts no render loop and no reload, and leaves every slot and
\* currentPage as they were.
C24_UnchangedSizeNoOp ==
    [][ (/\ mounted
         /\ <<innerWidth', innerHeight'>> # <<innerWidth, innerHeight>>
         /\ dimensions' = dimensions /\ isMobile' = isMobile)
        => /\ loops' = loops /\ loads' = loads
           /\ pageImages' = pageImages /\ currentPage' = currentPage
           /\ numPages' = numPages /\ loadPdfDoc' = loadPdfDoc
      ]_vars

\* The window is 400x850 with the layout of 400x800 while a loop of the
\* lazy version is rendering after a flip, other pages being stored already.
C24_Witness ==
    /\ variant = "lazy" /\ mounted
    /\ innerWidth = 400 /\ innerHeight = 850
    /\ dimensions = [width |-> 380, height |-> 245] /\ isMobile
    /\ currentPage # 0
    /\ Len(loops) = 1 /\ loops[1].pc = "render"
    /\ \E i \in DOMAIN pageImages : AtCurrentSize(i)

=============================================================================
